---- MODULE Spec2Model ----
(***************************************************************************)
(* Model of the exhibition-hall planner (src/generate_plan.py) and of the  *)
(* rectangle filter of its validator (src/validate_plan.py).               *)
(*                                                                         *)
(* Lengths are integers counted in eighths of a metre, so that the grid    *)
(* resolution GRID (0.25 m) is 2 units and snap() is a real rounding.      *)
(* Every coordinate of the program is a multiple of 0.125 m below 2^20, so *)
(* its float arithmetic is exact and the 1e-6 tolerances of the source     *)
(* (isclose, inside_zone, the sliding loops) decide exactly as = and <=.   *)
(***************************************************************************)
EXTENDS Integers, Sequences, FiniteSets, TLC

\* ---------------------------------------------------------------- units
GRID == 2
STEP == 8
HALL_W == 640
HALL_H == 320

\* n metres, and n quarter-metres, in model units
M(n) == 4 * GRID * n
G(n) == GRID * n

Min(a, b) == IF a <= b THEN a ELSE b
Max(a, b) == IF a >= b THEN a ELSE b

\* round(v / GRID) * GRID, Python's round: halves go to the even neighbour
snap(v) ==
    LET q == v \div GRID
        r == v % GRID
    IN  IF 2 * r < GRID THEN q * GRID
        ELSE IF 2 * r > GRID THEN (q + 1) * GRID
        ELSE IF q % 2 = 0 THEN q * GRID ELSE (q + 1) * GRID

\* ------------------------------------------------------------- geometry
Rect(x, y, w, h, label, zone) ==
    [x |-> x, y |-> y, w |-> w, h |-> h, label |-> label, zone |-> zone]

rects_overlap(r1, r2) ==
    ~ (   r1.x + r1.w <= r2.x
       \/ r2.x + r2.w <= r1.x
       \/ r1.y + r1.h <= r2.y
       \/ r2.y + r2.h <= r1.y)

\* a copy that takes its y from x
copy_yx(self, label, zone) ==
    Rect(self.x, self.x, self.w, self.h, label, zone)

\* Rect.copy(label=..., zone=...): a new value, the geometry kept
copy(self, label, zone) ==
    Rect(self.x, self.y, self.w, self.h, label, zone)

touches_one(r, c) ==
    \/ /\ (r.x + r.w = c.x \/ c.x + c.w = r.x)
       /\ ~ (r.y >= c.y + c.h \/ r.y + r.h <= c.y)
    \/ /\ (r.y + r.h = c.y \/ c.y + c.h = r.y)
       /\ ~ (r.x >= c.x + c.w \/ r.x + r.w <= c.x)

touches_corridor(r, corridors) ==
    \E i \in 1..Len(corridors) : touches_one(r, corridors[i])

inside_zone_any(r, zb) == TRUE

inside_zone(r, zb) ==
    /\ r.x >= zb.x0
    /\ r.x + r.w <= zb.x1
    /\ r.y >= zb.y0
    /\ r.y + r.h <= zb.y1

\* ---------------------------------------------------------- layout model
ZONE_A == [x0 |-> M(0), x1 |-> M(48), y0 |-> M(7), y1 |-> M(33)]
ZONE_B == [x0 |-> M(52), x1 |-> M(80), y0 |-> M(7), y1 |-> M(33)]

MAIN_CORRIDORS ==
    << Rect(M(48), M(0), M(4), M(40), "main_vertical", ""),
       Rect(M(0), M(33), M(80), M(4), "main_upper", ""),
       Rect(M(0), M(3), M(80), M(4), "main_lower", "") >>

SECONDARY_CORRIDORS ==
    << Rect(G(90), M(7), M(3), M(26), "spur_A", ""),
       Rect(G(250), M(7), M(3), M(26), "spur_B", "") >>

TERTIARY_CORRIDORS ==
    << Rect(M(0), M(19), M(80), M(3), "tertiary_mid", "") >>

CORRIDORS == MAIN_CORRIDORS \o SECONDARY_CORRIDORS \o TERTIARY_CORRIDORS

Sizes == {200, 100, 90, 80, 60, 48, 40, 30, 20, 18, 15, 12}
Zones == {"A", "B"}

INVENTORY ==
    [s \in Sizes |->
        CASE s = 200 -> 2 [] s = 100 -> 3 [] s = 90 -> 2 [] s = 80 -> 3
          [] s = 60 -> 4 [] s = 48 -> 5 [] s = 40 -> 4 [] s = 30 -> 5
          [] s = 20 -> 5 [] s = 18 -> 5 [] s = 15 -> 4 [] s = 12 -> 6]

SHAPES ==
    [s \in Sizes |->
        CASE s = 200 -> << <<M(20), M(10)>>, <<M(10), M(20)>> >>
          [] s = 100 -> << <<M(10), M(10)>> >>
          [] s = 90  -> << <<M(9), M(10)>>, <<M(10), M(9)>> >>
          [] s = 80  -> << <<M(8), M(10)>>, <<M(10), M(8)>> >>
          [] s = 60  -> << <<M(10), M(6)>>, <<M(6), M(10)>> >>
          [] s = 48  -> << <<M(8), M(6)>>, <<M(6), M(8)>> >>
          [] s = 40  -> << <<M(8), M(5)>>, <<M(5), M(8)>> >>
          [] s = 30  -> << <<M(10), M(3)>>, <<M(6), M(5)>>, <<M(5), M(6)>> >>
          [] s = 20  -> << <<M(5), M(4)>>, <<M(4), M(5)>> >>
          [] s = 18  -> << <<M(6), M(3)>>, <<G(18), M(4)>>, <<M(4), G(18)>> >>
          [] s = 15  -> << <<M(5), M(3)>>, <<G(15), M(4)>>, <<M(4), G(15)>> >>
          [] s = 12  -> << <<M(4), M(3)>>, <<M(3), M(4)>> >>]

\* ------------------------------------------------------ candidate generator
Edge(type, side, pos, lo, hi) ==
    [type |-> type, side |-> side, pos |-> pos, lo |-> lo, hi |-> hi]

\* a table as a set of <<key, value>> pairs, and its lookup
Lookup(T, k) == (CHOOSE p \in T : p[1] = k)[2]

ZoneBounds(zone) == IF zone = "A" THEN ZONE_A ELSE ZONE_B

\* the edges one corridor contributes to a zone
edges_of(c, zone, zb) ==
    LET x0 == c.x
        x1 == c.x + c.w
        y0 == c.y
        y1 == c.y + c.h
    IN  IF c.label = "main_vertical"
        THEN IF zone = "A"
             THEN << Edge("v", "right", x0, zb.y0, zb.y1) >>
             ELSE << Edge("v", "left", x1, zb.y0, zb.y1) >>
        ELSE IF (c.label = "spur_A" /\ zone = "A") \/ (c.label = "spur_B" /\ zone = "B")
        THEN << Edge("v", "right", x0, Max(y0, zb.y0), Min(y1, zb.y1)),
                Edge("v", "left", x1, Max(y0, zb.y0), Min(y1, zb.y1)) >>
        ELSE IF c.label = "main_upper"
        THEN << Edge("h", "top", y0, Max(x0, zb.x0), Min(x1, zb.x1)) >>
        ELSE IF c.label = "main_lower"
        THEN << Edge("h", "bottom", y1, Max(x0, zb.x0), Min(x1, zb.x1)) >>
        ELSE IF c.label = "tertiary_mid"
        THEN << Edge("h", "top", y0, Max(x0, zb.x0), Min(x1, zb.x1)),
                Edge("h", "bottom", y1, Max(x0, zb.x0), Min(x1, zb.x1)) >>
        ELSE <<>>

\* the loop over CORRIDORS from index i on
RECURSIVE edges_from(_, _)
edges_from(i, zone) ==
    IF i > Len(CORRIDORS) THEN <<>>
    ELSE edges_of(CORRIDORS[i], zone, ZoneBounds(zone)) \o edges_from(i + 1, zone)

corridor_edges_for_zone(zone) == edges_from(1, zone)

EDGES == { << z, corridor_edges_for_zone(z) >> : z \in Zones }

\* the positions the while loop visits: lo, lo+STEP, ... while p <= last
slide(lo, last) ==
    IF last < lo THEN <<>>
    ELSE [i \in 1..((last - lo) \div STEP + 1) |-> lo + (i - 1) * STEP]

\* the candidate of shape w x h at position p along edge e
at_edge(e, p, w, h, zone) ==
    IF e.type = "v"
    THEN Rect(snap(IF e.side = "right" THEN e.pos - w ELSE e.pos),
              snap(p), w, h, "", zone)
    ELSE Rect(snap(p),
              snap(IF e.side = "top" THEN e.pos - h ELSE e.pos),
              w, h, "", zone)

\* the candidates of one shape along one edge, in the order generated
along_edge(e, w, h, zone) ==
    SelectSeq([i \in 1..Len(slide(e.lo, e.hi - (IF e.type = "v" THEN h ELSE w))) |->
                  at_edge(e, slide(e.lo, e.hi - (IF e.type = "v" THEN h ELSE w))[i], w, h, zone)],
              LAMBDA r : inside_zone(r, ZoneBounds(zone)))

\* the loop over the edges from index j on, for one shape
RECURSIVE over_edges(_, _, _, _)
over_edges(j, w, h, zone) ==
    IF j > Len(Lookup(EDGES, zone)) THEN <<>>
    ELSE along_edge(Lookup(EDGES, zone)[j], w, h, zone) \o over_edges(j + 1, w, h, zone)

\* the loop over the shapes of a size from index i on; a shape beyond the
\* aspect cap is passed over
RECURSIVE over_shapes(_, _, _)
over_shapes(i, area, zone) ==
    IF i > Len(SHAPES[area]) THEN <<>>
    ELSE (IF Max(snap(SHAPES[area][i][1]), snap(SHAPES[area][i][2])) * 10000
               > 40001 * Min(snap(SHAPES[area][i][1]), snap(SHAPES[area][i][2]))
          THEN <<>>
          ELSE over_edges(1, snap(SHAPES[area][i][1]), snap(SHAPES[area][i][2]), zone))
         \o over_shapes(i + 1, area, zone)

\* the list `candidates` before deduplication
raw_candidates(area, zone) == over_shapes(1, area, zone)

RAW == { << k, raw_candidates(k[1], k[2]) >> : k \in Sizes \X Zones }

\* squared distance of the centre to the entrance (50, 40), times 4
dist(r) ==
    (2 * r.x + r.w - 2 * M(50)) * (2 * r.x + r.w - 2 * M(50))
    + (2 * r.y + r.h - 2 * M(40)) * (2 * r.y + r.h - 2 * M(40))

\* uniq and sorted(): a dict keeps the place of a key's first insertion and
\* sorted() is stable, so rectangles of equal distance keep the order of
\* their first occurrence in raw. Each entry carries its key d and place i.
dedup_sort(raw) ==
    SortSeq(SelectSeq([i \in 1..Len(raw) |-> [r |-> raw[i], d |-> dist(raw[i]), i |-> i]],
                      LAMBDA k : \A j \in 1..(k.i - 1) : raw[j] # k.r),
            LAMBDA a, b : a.d < b.d \/ (a.d = b.d /\ a.i < b.i))

SORTED == { << p[1], dedup_sort(p[2]) >> : p \in RAW }

\* cand_list: the sorted rectangles themselves
cand_list(srt) == SubSeq([i \in 1..Len(srt) |-> srt[i].r], 1, Len(srt))

CAND_LIST == { << p[1], cand_list(p[2]) >> : p \in SORTED }

\* the cap of generate_candidates's return
CAP == 400

cap_tenth(l) == SubSeq(l, 1, Min(Len(l), CAP \div 10))

cap(l) == SubSeq(l, 1, Min(Len(l), CAP))

\* main's candidates_cache: generate_candidates for every size and zone
candidates_cache == { << p[1], cap(p[2]) >> : p \in CAND_LIST }

generate_candidates(area, zone) == Lookup(candidates_cache, << area, zone >>)

\* ------------------------------------------------------- outer-strip placer
\* one run of a strip's loop: count booths of w x h, laid from the cursor
Run(area, w, h, count) == [area |-> area, w |-> w, h |-> h, count |-> count]

\* the add() calls of one strip with the cursor never advanced
RECURSIVE strip_calls_stuck(_, _, _, _)
strip_calls_stuck(zone, x, y, runs) ==
    IF runs = <<>> THEN <<>>
    ELSE LET r == Head(runs)
         IN  IF r.count = 0 THEN strip_calls_stuck(zone, x, y, Tail(runs))
             ELSE << [area |-> r.area, x |-> x, y |-> y, w |-> r.w, h |-> r.h, zone |-> zone] >>
                  \o strip_calls_stuck(zone, x, y,
                                       << Run(r.area, r.w, r.h, r.count - 1) >> \o Tail(runs))

\* the add() calls of one strip: the cursor x advances by each booth's width
RECURSIVE strip_calls(_, _, _, _)
strip_calls(zone, x, y, runs) ==
    IF runs = <<>> THEN <<>>
    ELSE LET r == Head(runs)
         IN  IF r.count = 0 THEN strip_calls(zone, x, y, Tail(runs))
             ELSE << [area |-> r.area, x |-> x, y |-> y, w |-> r.w, h |-> r.h, zone |-> zone] >>
                  \o strip_calls(zone, x + r.w, y,
                                 << Run(r.area, r.w, r.h, r.count - 1) >> \o Tail(runs))

OUTER_CALLS ==
    strip_calls("C", M(0), M(37),
                << Run(30, M(10), M(3), 3), Run(18, M(6), M(3), 3) >>)
    \o strip_calls("D", M(52), M(37),
                << Run(30, M(10), M(3), 1), Run(15, M(5), M(3), 2), Run(12, M(4), M(3), 2) >>)
    \o strip_calls("E", M(0), M(0),
                << Run(30, M(10), M(3), 1), Run(18, M(6), M(3), 2),
                   Run(15, M(5), M(3), 2), Run(12, M(4), M(3), 3) >>)
    \o strip_calls("F", M(52), M(0), << Run(12, M(4), M(3), 1) >>)

StripSizes == {30, 18, 15, 12}

Label(zone, n) == zone \o "_" \o ToString(n)

\* the rectangle add() builds for a call, with the next booth id
strip_rect(c, bid) ==
    Rect(snap(c.x), snap(c.y), snap(c.w), snap(c.h), Label(c.zone, bid), c.zone)

overlaps_any(r, rs) == \E i \in 1..Len(rs) : rects_overlap(r, rs[i])

\* add()'s first check: for b in blocking + placed
add_overlaps_placed_only(r, blocking, placed) == overlaps_any(r, placed)

add_overlaps(r, blocking, placed) == overlaps_any(r, blocking) \/ overlaps_any(r, placed)

\* ------------------------------------------------------------------ inputs
\* The blocking list handed to layout_outer_strips is CORRIDORS in main; the
\* model also starts it with up to MaxExtra further obstacles drawn from
\* EXTRA_POOL, and runs two inventories: INVENTORY, and one whose interior
\* part is a single 200.
MaxExtra == 2

EXTRA_POOL ==
    << Rect(M(0), M(7), M(48), M(26), "block_A", ""),
       Rect(M(52), M(7), M(28), M(26), "block_B", ""),
       Rect(M(40), M(28), M(2), M(2), "pillar_A", ""),
       Rect(M(30), M(37), M(2), M(3), "stall_C", ""),
       Rect(M(54), M(0), M(2), M(3), "stall_F", "") >>

RECURSIVE pick(_, _)
pick(S, i) ==
    IF i > Len(EXTRA_POOL) THEN <<>>
    ELSE (IF i \in S THEN << EXTRA_POOL[i] >> ELSE <<>>) \o pick(S, i + 1)

ExtraChoices ==
    { pick(S, 1) : S \in { T \in SUBSET (1..Len(EXTRA_POOL)) : Cardinality(T) <= MaxExtra } }

INVENTORY_ONE ==
    [s \in Sizes |-> IF s = 200 THEN 1 ELSE IF s \in StripSizes THEN INVENTORY[s] ELSE 0]

InventoryChoices == {INVENTORY, INVENTORY_ONE}

\* ------------------------------------------------------------ main's steps
\* remaining = INVENTORY.copy(); remaining[a] -= c for each size the strips used
remaining_unsubtracted(inv, used) == inv

remaining_of(inv, used) ==
    [a \in DOMAIN inv |-> IF a \in DOMAIN used THEN inv[a] - used[a] ELSE inv[a]]

RECURSIVE repeat(_, _)
repeat(a, c) == IF c <= 0 THEN <<>> ELSE << a >> \o repeat(a, c - 1)

\* sizes by descending area, each repeated by its remaining count
RECURSIVE order_asc(_, _)
order_asc(rem, S) ==
    IF S = {} THEN <<>>
    ELSE CHOOSE q \in { repeat(a, rem[a]) \o order_asc(rem, S \ {a}) :
                           a \in { v \in S : \A u \in S : v <= u } } : TRUE

RECURSIVE order_desc(_, _)
order_desc(rem, S) ==
    IF S = {} THEN <<>>
    ELSE CHOOSE q \in { repeat(a, rem[a]) \o order_desc(rem, S \ {a}) :
                           a \in { v \in S : \A u \in S : v >= u } } : TRUE

place_order_asc(rem) == order_asc(rem, DOMAIN rem)

place_order_of(rem) == order_desc(rem, DOMAIN rem)

\* ---------------------------------------------------------- greedy allocator
\* any(rects_overlap(cand, b) for b in placed + blocking)
hits_obstacle_blocking_only(cand, placed, blocking) == overlaps_any(cand, blocking)

hits_obstacle(cand, placed, blocking) ==
    overlaps_any(cand, placed) \/ overlaps_any(cand, blocking)

\* whether the inner loop stops at a candidate: neither continue is taken
passes(cand, placed, blocking) ==
    /\ ~ hits_obstacle(cand, placed, blocking)
    /\ touches_corridor(cand, CORRIDORS)

\* the inner for loop over the list l: the index at which it breaks, which
\* is the first candidate not passed over by a continue; 0 when the loop
\* runs out
first_pass(l, placed, blocking) ==
    IF \A i \in 1..Len(l) : ~ passes(l[i], placed, blocking)
    THEN 0
    ELSE CHOOSE i \in 1..Len(l) :
           /\ passes(l[i], placed, blocking)
           /\ \A j \in 1..(i - 1) : ~ passes(l[j], placed, blocking)

\* the inner loop over candidates_cache[(area, zone)], the list looked up once
scan(area, zone, placed, blocking) ==
    CHOOSE k \in { first_pass(l, placed, blocking) :
                      l \in { generate_candidates(area, zone) } } : TRUE

\* the zones in the order the allocator tries them
ZONE_ORDER_BA == << "B", "A" >>

ZONE_ORDER == << "A", "B" >>

\* the for loop over the zones from position z on: <<zone, index>> of the
\* candidate committed, <<"", 0>> when no zone yields one
RECURSIVE try_zones(_, _, _, _)
try_zones(area, z, placed, blocking) ==
    IF z > Len(ZONE_ORDER) THEN << "", 0 >>
    ELSE IF scan(area, ZONE_ORDER[z], placed, blocking) > 0
    THEN << ZONE_ORDER[z], scan(area, ZONE_ORDER[z], placed, blocking) >>
    ELSE try_zones(area, z + 1, placed, blocking)

zone_count(placed, zone) == Cardinality({ i \in 1..Len(placed) : placed[i].zone = zone })

\* skipped.append(area)
skip_assign(skipped, area) == << area >>

skip_append(skipped, area) == Append(skipped, area)

\* --------------------------------------------------------------- render sink
\* main's zone_outlines, drawn for readability
ZONE_OUTLINES ==
    << Rect(M(0), M(7), M(48), M(26), "A", ""),
       Rect(M(52), M(7), M(28), M(26), "B", ""),
       Rect(M(0), M(37), M(48), M(3), "C", ""),
       Rect(M(52), M(37), M(28), M(3), "D", ""),
       Rect(M(0), M(0), M(48), M(3), "E", ""),
       Rect(M(52), M(0), M(28), M(3), "F", "") >>

\* an element of the image: its tag, its x, y, width and height attributes
\* (0 where the element has none, as elem.attrib.get(..., 0) reads it) and
\* its class
Elem(tag, x, y, width, height, cls) ==
    [tag |-> tag, x |-> x, y |-> y, width |-> width, height |-> height, cls |-> cls]

\* svg_rect without text: the y axis is flipped at the render boundary
svg_rect(r, cls) == Elem("rect", r.x, HALL_H - r.y - r.h, r.w, r.h, cls)

\* the <text> element svg_rect adds for a booth
svg_text(r) ==
    Elem("text", r.x + r.w \div 2, (HALL_H - r.y - r.h) + r.h \div 2, 0, 0, "booth-text")

RECURSIVE booth_elems(_, _)
booth_elems(booths, i) ==
    IF i > Len(booths) THEN <<>>
    ELSE << svg_rect(booths[i], "booth"), svg_text(booths[i]) >> \o booth_elems(booths, i + 1)

\* the elements of new_plan.svg in document order, the root first
render(booths) ==
    << Elem("svg", 0, 0, 10 * HALL_W, 10 * HALL_H, ""),
       Elem("style", 0, 0, 0, 0, ""),
       svg_rect(Rect(0, 0, HALL_W, HALL_H, "", ""), "hall-border") >>
    \o [i \in 1..Len(CORRIDORS) |->
           svg_rect(CORRIDORS[i],
                    IF CORRIDORS[i].label \in {"main_vertical", "main_upper", "main_lower"}
                    THEN "corridor-main" ELSE "corridor-secondary")]
    \o booth_elems(booths, 1)
    \o [i \in 1..Len(ZONE_OUTLINES) |-> svg_rect(ZONE_OUTLINES[i], "zone-outline")]

\* ----------------------------------------------------------------- validator
Abs(v) == IF v < 0 THEN -v ELSE v

\* whether parse_svg_rects keeps an element: a rect that is neither the hall
\* boundary (80 x 40 within 0.1) nor a corridor by the heuristic
kept(e) ==
    /\ e.tag = "rect"
    /\ ~ (10 * Abs(e.width - M(80)) < M(1) /\ 10 * Abs(e.height - M(40)) < M(1))
    /\ ~ (   (10 * Abs(e.width - M(4)) < M(1) /\ e.height > M(10))
          \/ (10 * Abs(e.height - M(4)) < M(1) /\ e.width > M(10)))

parse_svg_rects(svg) ==
    LET ks == SelectSeq(svg, kept)
    IN  [i \in 1..Len(ks) |->
            [x |-> ks[i].x, y |-> ks[i].y, w |-> ks[i].width, h |-> ks[i].height,
             area |-> ks[i].width * ks[i].height]]

VARIABLES
    pc,           \* "strips", "greedy", "done", "validated", "fatal"
    inv,          \* the inventory table of the run
    extra,        \* the obstacles the blocking list starts with besides CORRIDORS
    blocking,     \* main's blocking list
    outer,        \* layout_outer_strips's placed list
    used,         \* layout_outer_strips's used counts
    bid,          \* layout_outer_strips's next booth id
    remaining,    \* main's remaining inventory
    place_order,  \* main's placement order
    idx,          \* position of greedy_place_with_skips in place_order
    placed,       \* greedy_place_with_skips's placed list
    skipped,      \* greedy_place_with_skips's skip list
    err,          \* the RuntimeError raised, "" when none
    svg,          \* the elements of the image written by main
    booths        \* the validator's rectangle list

vars == << pc, inv, extra, blocking, outer, used, bid, remaining, place_order,
           idx, placed, skipped, err, svg, booths >>

Init ==
    /\ pc = "strips"
    /\ inv \in InventoryChoices
    /\ extra \in ExtraChoices
    /\ blocking = CORRIDORS \o extra
    /\ outer = <<>>
    /\ used = [a \in StripSizes |-> 0]
    /\ bid = 1
    /\ remaining = inv
    /\ place_order = <<>>
    /\ idx = 1
    /\ placed = <<>>
    /\ skipped = <<>>
    /\ err = ""
    /\ svg = <<>>
    /\ booths = <<>>

\* whether add() raises for rectangle r, and with which error
add_error(r) ==
    IF add_overlaps(r, blocking, outer) THEN "overlap"
    ELSE IF ~ touches_corridor(r, MAIN_CORRIDORS) THEN "no_contact"
    ELSE ""

\* one add() call of layout_outer_strips that is accepted
StripAdd ==
    /\ pc = "strips"
    /\ bid <= Len(OUTER_CALLS)
    /\ add_error(strip_rect(OUTER_CALLS[bid], bid)) = ""
    /\ outer' = Append(outer, strip_rect(OUTER_CALLS[bid], bid))
    /\ used' = [used EXCEPT ![OUTER_CALLS[bid].area] = @ + 1]
    /\ bid' = bid + 1
    /\ UNCHANGED << pc, inv, extra, blocking, remaining, place_order, idx, placed,
                    skipped, err, svg, booths >>

\* one add() call that raises: the error leaves layout_outer_strips and main
StripRaise ==
    /\ pc = "strips"
    /\ bid <= Len(OUTER_CALLS)
    /\ add_error(strip_rect(OUTER_CALLS[bid], bid)) # ""
    /\ err' = add_error(strip_rect(OUTER_CALLS[bid], bid))
    /\ pc' = "fatal"
    /\ UNCHANGED << inv, extra, blocking, outer, used, bid, remaining, place_order,
                    idx, placed, skipped, svg, booths >>

\* main between the two passes: blocking += outer_booths, the remaining
\* inventory, the placement order and the candidate cache
Prepare ==
    /\ pc = "strips"
    /\ bid > Len(OUTER_CALLS)
    /\ blocking' = blocking \o outer
    /\ remaining' = remaining_of(inv, used)
    /\ place_order' = place_order_of(remaining_of(inv, used))
    /\ IF \E a \in Sizes, z \in Zones :
             /\ remaining_of(inv, used)[a] > 0
             /\ generate_candidates(a, z) = <<>>
       THEN pc' = "fatal" /\ err' = "no_candidates"
       ELSE pc' = "greedy" /\ err' = err
    /\ UNCHANGED << inv, extra, outer, used, bid, idx, placed, skipped, svg, booths >>

\* one pass of greedy_place_with_skips's outer loop that commits a candidate
Commit ==
    /\ pc = "greedy"
    /\ idx <= Len(place_order)
    /\ \E hit \in { try_zones(place_order[idx], 1, placed, blocking) } :
           /\ hit[2] > 0
           /\ placed' = Append(placed,
                  copy(generate_candidates(place_order[idx], hit[1])[hit[2]],
                       Label(hit[1], zone_count(placed, hit[1]) + 1), hit[1]))
    /\ idx' = idx + 1
    /\ UNCHANGED << pc, inv, extra, blocking, outer, used, bid, remaining, place_order,
                    skipped, err, svg, booths >>

\* one pass of the outer loop that finds no candidate: the item is skipped
Skip ==
    /\ pc = "greedy"
    /\ idx <= Len(place_order)
    /\ try_zones(place_order[idx], 1, placed, blocking)[2] = 0
    /\ skipped' = skip_append(skipped, place_order[idx])
    /\ idx' = idx + 1
    /\ UNCHANGED << pc, inv, extra, blocking, outer, used, bid, remaining, place_order,
                    placed, err, svg, booths >>

\* greedy_place_with_skips returns; main builds all_booths and writes the image
Render ==
    /\ pc = "greedy"
    /\ idx > Len(place_order)
    /\ svg' = render(outer \o placed)
    /\ pc' = "done"
    /\ UNCHANGED << inv, extra, blocking, outer, used, bid, remaining, place_order,
                    idx, placed, skipped, err, booths >>

\* the validator reads the image back
Validate ==
    /\ pc = "done"
    /\ booths' = parse_svg_rects(svg)
    /\ pc' = "validated"
    /\ UNCHANGED << inv, extra, blocking, outer, used, bid, remaining, place_order,
                    idx, placed, skipped, err, svg >>

Next == StripAdd \/ StripRaise \/ Prepare \/ Commit \/ Skip \/ Render \/ Validate

Spec == Init /\ [][Next]_vars

\* the steps of generate_plan.main, a sequential program: whenever one
\* of them is enabled the interpreter executes it
MainStep == StripAdd \/ StripRaise \/ Prepare \/ Commit \/ Skip \/ Render

\* main runs on until it returns or raises; the validator is a separate
\* program that nothing obliges anyone to start
FairSpec == Spec /\ WF_vars(MainStep)

\* main's all_booths = outer_booths + placed_inner
all_booths == outer \o placed

\* ------------------------------------------------------------------ claims
\* the run of main as written: CORRIDORS alone as blocking, INVENTORY
FixedConfiguration == extra = <<>> /\ inv = INVENTORY

Completed == pc \in {"done", "validated"}

\* the open interiors of a and b intersect
InteriorsMeet(a, b) ==
    /\ Max(a.x, b.x) < Min(a.x + a.w, b.x + b.w)
    /\ Max(a.y, b.y) < Min(a.y + a.h, b.y + b.h)

\* a and b share a boundary segment of positive length and do not overlap
ShareEdge(a, b) ==
    /\ ~ InteriorsMeet(a, b)
    /\ \/ /\ (a.x + a.w = b.x \/ b.x + b.w = a.x)
          /\ Max(a.y, b.y) < Min(a.y + a.h, b.y + b.h)
       \/ /\ (a.y + a.h = b.y \/ b.y + b.h = a.y)
          /\ Max(a.x, b.x) < Min(a.x + a.w, b.x + b.w)

\* one of r's four sides lies, over its whole length, on an edge of c
FullSideOn(r, c) ==
    \/ /\ (r.x + r.w = c.x \/ r.x = c.x + c.w)
       /\ c.y <= r.y /\ r.y + r.h <= c.y + c.h
    \/ /\ (r.y + r.h = c.y \/ r.y = c.y + c.h)
       /\ c.x <= r.x /\ r.x + r.w <= c.x + c.w

\* C1: at every moment of a run, no two placed booths (outer-strip and
\* interior) overlap and no placed booth overlaps a corridor, overlap
\* meaning that the open interiors intersect.
C1_NoOverlap ==
    /\ \A i, j \in 1..Len(all_booths) :
           i < j => ~ InteriorsMeet(all_booths[i], all_booths[j])
    /\ \A i \in 1..Len(all_booths), k \in 1..Len(CORRIDORS) :
           ~ InteriorsMeet(all_booths[i], CORRIDORS[k])

\* a completed run of the fixed configuration in which an interior booth
\* shares an edge with another interior booth and one with a corridor
C1_Witness ==
    /\ Completed /\ FixedConfiguration
    /\ \E i, j \in 1..Len(placed) : i # j /\ ShareEdge(placed[i], placed[j])
    /\ \E i \in 1..Len(outer), j \in 1..Len(outer) : i # j /\ ShareEdge(outer[i], outer[j])
    /\ \E i \in 1..Len(placed), k \in 1..Len(CORRIDORS) : ShareEdge(placed[i], CORRIDORS[k])

\* C2: every booth of the final plan has at least one side that lies over
\* its whole length on an edge of some corridor.
C2_FullSideContact ==
    Completed =>
        \A i \in 1..Len(all_booths) :
            \E k \in 1..Len(CORRIDORS) : FullSideOn(all_booths[i], CORRIDORS[k])

\* a completed run of the fixed configuration with a booth whose only
\* corridor contact is with a spur or the tertiary corridor
C2_Witness ==
    /\ Completed /\ FixedConfiguration
    /\ Len(outer) = Len(OUTER_CALLS)
    /\ \E i \in 1..Len(placed) :
           /\ \A k \in 1..Len(MAIN_CORRIDORS) : ~ FullSideOn(placed[i], MAIN_CORRIDORS[k])
           /\ \E k \in 1..Len(CORRIDORS) : FullSideOn(placed[i], CORRIDORS[k])

\* r lies fully inside the zone outline z
InsideOutline(r, z) ==
    /\ z.x <= r.x /\ r.x + r.w <= z.x + z.w
    /\ z.y <= r.y /\ r.y + r.h <= z.y + z.h

\* C3: every booth of the final plan lies fully inside exactly one of the six
\* zones A..F, that zone is the one its zone tag names, and the booths of the
\* strips C, D, E, F are at most 3 units deep.
C3_ZoneContainment ==
    Completed =>
        \A i \in 1..Len(all_booths) :
            /\ { k \in 1..Len(ZONE_OUTLINES) : InsideOutline(all_booths[i], ZONE_OUTLINES[k]) }
                 = { k \in 1..Len(ZONE_OUTLINES) : ZONE_OUTLINES[k].label = all_booths[i].zone }
            /\ Cardinality({ k \in 1..Len(ZONE_OUTLINES) :
                               ZONE_OUTLINES[k].label = all_booths[i].zone }) = 1
            /\ all_booths[i].zone \in {"C", "D", "E", "F"} => all_booths[i].h <= M(3)

\* a completed run with booths in every one of the six zones
C3_Witness ==
    /\ Completed
    /\ \A k \in 1..Len(ZONE_OUTLINES) :
           \E i \in 1..Len(all_booths) : all_booths[i].zone = ZONE_OUTLINES[k].label

\* C4: at the end of a completed run, for every size s, the booths placed
\* with area s plus the entries s of the skip list number the inventory's
\* count of s, and every placed booth has the area of an inventory size.
C4_InventoryConservation ==
    Completed =>
        /\ \A s \in Sizes :
               Cardinality({ i \in 1..Len(all_booths) :
                               all_booths[i].w * all_booths[i].h = s * M(1) * M(1) })
               + Cardinality({ i \in 1..Len(skipped) : skipped[i] = s })
               = inv[s]
        /\ \A i \in 1..Len(all_booths) :
               \E s \in Sizes : all_booths[i].w * all_booths[i].h = s * M(1) * M(1)
        /\ \A i \in 1..Len(skipped) : skipped[i] \in Sizes

\* a completed run of the fixed configuration with booths placed and skipped
C4_Witness ==
    /\ Completed /\ FixedConfiguration
    /\ placed # <<>>
    /\ skipped # <<>>

\* a candidate is acceptable now: it overlaps no placed booth and no blocking
\* rectangle, and it touches a corridor
Acceptable(c) ==
    /\ \A i \in 1..Len(placed) : ~ InteriorsMeet(c, placed[i])
    /\ \A i \in 1..Len(blocking) : ~ InteriorsMeet(c, blocking[i])
    /\ touches_corridor(c, CORRIDORS)

NoneAcceptable(l) == \A i \in 1..Len(l) : ~ Acceptable(l[i])

\* the item the allocator is about to process
AtItem == pc = "greedy" /\ idx <= Len(place_order)

\* C5: when the allocator processes an item for which no candidate of zone
\* A's list and none of zone B's is acceptable, it appends exactly that size
\* to the skip list, leaves the placed list unchanged, raises nothing and goes
\* on to the next item; with place order [200] and no acceptable candidate
\* the run ends with nothing placed and the skip list [200].
C5_SkipIsData ==
    /\ [][ ( /\ AtItem
             /\ NoneAcceptable(generate_candidates(place_order[idx], "A"))
             /\ NoneAcceptable(generate_candidates(place_order[idx], "B")) )
           => ( /\ skipped' = Append(skipped, place_order[idx])
                /\ placed' = placed
                /\ idx' = idx + 1
                /\ pc' = "greedy"
                /\ err' = "" ) ]_vars
    /\ [] ( ( /\ Completed
              /\ place_order = << 200 >>
              /\ \A z \in Zones : \A i \in 1..Len(generate_candidates(200, z)) :
                     \/ \E k \in 1..Len(blocking) :
                            InteriorsMeet(generate_candidates(200, z)[i], blocking[k])
                     \/ ~ touches_corridor(generate_candidates(200, z)[i], CORRIDORS) )
            => (placed = <<>> /\ skipped = << 200 >>) )

\* a completed run with place order [200] whose only item was skipped
C5_Witness ==
    /\ Completed
    /\ place_order = << 200 >>
    /\ placed = <<>>
    /\ skipped = << 200 >>

\* the rectangle of the next add() call of the strip pass
NextStripRect ==
    Rect(OUTER_CALLS[bid].x, OUTER_CALLS[bid].y, OUTER_CALLS[bid].w, OUTER_CALLS[bid].h,
         "", OUTER_CALLS[bid].zone)

\* C6: when a strip placement overlaps a blocking rectangle or a strip booth
\* placed earlier, or touches no main corridor, the run becomes fatal at that
\* placement: the booth is not added, no later strip placement is made, no
\* interior allocation runs and nothing is recorded as a skip.
C6_StripFailFast ==
    /\ [][ ( /\ pc = "strips"
             /\ bid <= Len(OUTER_CALLS)
             /\ \/ \E i \in 1..Len(blocking) : InteriorsMeet(NextStripRect, blocking[i])
                \/ \E i \in 1..Len(outer) : InteriorsMeet(NextStripRect, outer[i])
                \/ ~ touches_corridor(NextStripRect, MAIN_CORRIDORS) )
           => ( /\ pc' = "fatal"
                /\ err' # ""
                /\ outer' = outer
                /\ used' = used ) ]_vars
    /\ [][ pc = "fatal" => UNCHANGED vars ]_vars
    /\ [] ( pc = "fatal" =>
              /\ placed = <<>>
              /\ skipped = <<>>
              /\ place_order = <<>>
              /\ svg = <<>> )

\* a fatal run that failed at the last strip placement, after 19 were accepted
C6_Witness ==
    /\ pc = "fatal"
    /\ err = "overlap"
    /\ Len(outer) = Len(OUTER_CALLS) - 1

\* the geometry of a booth as the image states it
Drawn(b) == [x |-> b.x, y |-> HALL_H - b.y - b.h, w |-> b.w, h |-> b.h, area |-> b.w * b.h]

\* C7: the rectangle list the validator re-derives from the rendered image
\* is exactly the list of the booth rectangles.
C7_ValidatorSeesBooths ==
    pc = "validated" => booths = [i \in 1..Len(all_booths) |-> Drawn(all_booths[i])]

SameGeometry(a, b) == a.x = b.x /\ a.y = b.y /\ a.w = b.w /\ a.h = b.h

\* l[i] is the earliest acceptable entry of l
EarliestAcceptable(l, i) ==
    /\ Acceptable(l[i])
    /\ \A j \in 1..(i - 1) : ~ Acceptable(l[j])

Last(q) == q[Len(q)]

\* C8: whenever the allocator places an item, the committed rectangle is the
\* earliest acceptable entry of zone A's list for that size, the lists being
\* in order of distance to (50, 40); one of zone B's list is committed only
\* when no entry of zone A's list is acceptable, and is then the earliest
\* acceptable entry of zone B's list.
C8_FirstFit ==
    [][ (AtItem /\ Len(placed') > Len(placed))
        => LET la == generate_candidates(place_order[idx], "A")
               lb == generate_candidates(place_order[idx], "B")
               new == Last(placed')
           IN  /\ \A l \in {la, lb} : \A i \in 1..(Len(l) - 1) : dist(l[i]) <= dist(l[i + 1])
               /\ IF ~ NoneAcceptable(la)
                  THEN /\ new.zone = "A"
                       /\ \E i \in 1..Len(la) :
                              EarliestAcceptable(la, i) /\ SameGeometry(new, la[i])
                  ELSE /\ new.zone = "B"
                       /\ \E i \in 1..Len(lb) :
                              EarliestAcceptable(lb, i) /\ SameGeometry(new, lb[i]) ]_vars

\* a completed run of the fixed configuration with booths committed from zone
\* A's lists and, zone A's lists exhausted, from zone B's
C8_Witness ==
    /\ Completed /\ FixedConfiguration
    /\ \E i \in 1..Len(placed) : placed[i].zone = "A"
    /\ \E i \in 1..Len(placed) : placed[i].zone = "B"

IsPrefix(p, q) == Len(p) <= Len(q) /\ \A i \in 1..Len(p) : q[i] = p[i]

C10_CapNoSpuriousSkip ==
    [][ (FixedConfiguration /\ AtItem /\ Len(skipped') > Len(skipped))
        => \A z \in Zones :
               NoneAcceptable(Lookup(CAND_LIST, << place_order[idx], z >>)) ]_vars

\* a run of the fixed configuration that skipped an item whose untruncated
\* list in zone A is longer than the cap
C10_Witness ==
    /\ FixedConfiguration
    /\ skipped # <<>>
    /\ Len(Lookup(CAND_LIST, << Last(skipped), "A" >>)) > CAP

\* C11: in the fixed configuration the run always reaches the completed
\* state and never the fatal one: no strip placement raises, so all 20 strip
\* booths are placed; the counts the strips use never exceed the inventory,
\* so the remaining counts stay >= 0; and every size that remains has at
\* least one candidate in zone A and in zone B.
C11_FixedRunCompletes ==
    /\ FixedConfiguration ~> Completed
    /\ [] ( FixedConfiguration =>
              /\ pc # "fatal"
              /\ err = ""
              /\ \A a \in StripSizes : used[a] <= inv[a]
              /\ \A a \in Sizes : remaining[a] >= 0
              /\ pc # "strips" =>
                    /\ Len(outer) = Len(OUTER_CALLS)
                    /\ \A a \in Sizes : remaining[a] = remaining_of(inv, used)[a]
                    /\ \A a \in Sizes, z \in Zones :
                           remaining[a] > 0 => Len(Lookup(candidates_cache, << a, z >>)) > 0 )

\* the run of the fixed configuration has returned: 20 strip booths, the
\* whole place order processed, some items skipped, the image written
C11_Witness ==
    /\ FixedConfiguration
    /\ pc = "done"
    /\ Len(outer) = 20
    /\ idx = Len(place_order) + 1
    /\ Len(placed) + Len(skipped) = Len(place_order)
    /\ skipped # <<>>
    /\ svg # <<>>

====
